---- MODULE Spec2Model ----
(***************************************************************************)
(* Model of app.middleware.cors.CORSMiddleware (a subclass of Starlette's  *)
(* CORSMiddleware) together with the two collaborators it talks to: the    *)
(* downstream ASGI application ("the pipeline") and the transport's send   *)
(* channel.                                                                *)
(*                                                                         *)
(* Headers are ASGI raw header lists: sequences of <<name, value>> pairs.  *)
(* Python dicts are modelled as sequences of <<key, value>> pairs in       *)
(* insertion order.  Python's None is the string None.                     *)
(***************************************************************************)
EXTENDS Integers, Sequences, FiniteSets, TLC

\* ------------------------------------------------------------------ bounds
\* Largest number of messages the downstream application hands to its send
\* channel while serving one request.
MaxEvents == 2

\* --------------------------------------------------------------- constants
None == "None"

HTTP_500_INTERNAL_SERVER_ERROR == 500

ALL_METHODS == {"DELETE", "GET", "HEAD", "OPTIONS", "PATCH", "POST", "PUT"}

ORIGIN_A == "https://a.com"
ORIGIN_UPPER == "https://A.com"
ORIGIN_PIPELINE == "https://pipeline.example"

\* --------------------------------------------------- header-list primitives
\* str.lower() on the header names that occur in the model.
Lower(k) ==
  CASE k = "Access-Control-Allow-Origin" -> "access-control-allow-origin"
    [] k = "Access-Control-Allow-Credentials" -> "access-control-allow-credentials"
    [] k = "Access-Control-Allow-Methods" -> "access-control-allow-methods"
    [] k = "Access-Control-Allow-Headers" -> "access-control-allow-headers"
    [] k = "Access-Control-Max-Age" -> "access-control-max-age"
    [] k = "Vary" -> "vary"
    [] OTHER -> k

\* Indexes of the entries of raw header list h whose name is k.
FoundIndexes(h, k) == {i \in 1..Len(h) : h[i][1] = k}

Min(S) == CHOOSE m \in S : \A n \in S : m <= n

\* Headers.get(key): the value of the first entry named key.lower(), or None.
HeadersGet(h, key) ==
  LET f == FoundIndexes(h, Lower(key))
  IN IF f = {} THEN None ELSE h[Min(f)][2]

\* key in Headers
HeadersContains(h, key) == FoundIndexes(h, Lower(key)) # {}

\* MutableHeaders.__setitem__: the first entry with that name is overwritten
\* in place, later entries with that name are deleted; a new name is appended.
RECURSIVE SetFrom(_, _, _, _, _)
SetFrom(h, k, v, first, i) ==
  IF i > Len(h) THEN <<>>
  ELSE IF h[i][1] = k
       THEN IF i = first THEN <<(<<k, v>>)>> \o SetFrom(h, k, v, first, i + 1)
            ELSE SetFrom(h, k, v, first, i + 1)
       ELSE <<h[i]>> \o SetFrom(h, k, v, first, i + 1)

\* Variant: the entry is always appended, an existing one is left in place.
HeadersSetItem_Append(h, key, value) == Append(h, <<Lower(key), value>>)

HeadersSetItem(h, key, value) ==
  LET k == Lower(key)
      f == FoundIndexes(h, k)
  IN IF f = {} THEN Append(h, <<k, value>>)
     ELSE SetFrom(h, k, value, Min(f), 1)

\* MutableHeaders.update(dict): one __setitem__ per item of the dict.
RECURSIVE HeadersUpdate(_, _)
HeadersUpdate(h, d) ==
  IF d = <<>> THEN h
  ELSE HeadersUpdate(HeadersSetItem(h, d[1][1], d[1][2]), Tail(d))

\* MutableHeaders.add_vary_header
add_vary_header(h, vary) ==
  LET existing == HeadersGet(h, "vary")
  IN IF existing # None
     THEN HeadersSetItem(h, "vary", existing \o ", " \o vary)
     ELSE HeadersSetItem(h, "vary", vary)

\* dict.__setitem__ on an insertion-ordered dict with case-sensitive keys.
DictSet(d, key, value) ==
  IF \E i \in 1..Len(d) : d[i][1] = key
  THEN [i \in 1..Len(d) |-> IF d[i][1] = key THEN <<key, value>> ELSE d[i]]
  ELSE Append(d, <<key, value>>)

\* Response.init_headers: [(k.lower(), v) for k, v in headers.items()]
RawHeaders(d) == [i \in 1..Len(d) |-> <<Lower(d[i][1]), d[i][2]>>]

\* ------------------------------------------------------------------ policy
\* The constructor arguments the middleware is registered with.  A regular
\* expression is represented by the set of origins it fully matches; the
\* empty set stands for allow_origin_regex=None.
Policies ==
  { p \in [allow_origins : {{"*"}, {ORIGIN_A}},
           allow_credentials : BOOLEAN,
           allow_methods : {{"GET"}, {"*"}},
           allow_headers : {{"*"}},
           allow_origin_regex : {{}, {ORIGIN_UPPER}}] :
      /\ ("*" \in p.allow_origins) => (p.allow_origin_regex = {})
      /\ (p.allow_origin_regex # {}) => (p.allow_methods = {"*"}) }

VARIABLES
  calls,      \* the calls of __call__ in flight at once, each with its own locals
  middleware_class,  \* the CORS middleware class the application stack was built with
  policy,     \* CORSMiddleware.__init__ arguments, fixed at start-up
  strict,     \* the transport refuses out-of-protocol messages (fixed at start-up)
  request,    \* the ASGI scope of the request being served (method, headers)
  path,       \* branch of __call__ taken for the request
  pc,         \* position of the middleware call
  emitted,    \* messages the downstream application passed to its send channel
  wire,       \* calls made on the transport's original send channel, in order
  app_calls,  \* number of times self.app was invoked for the request
  app_exc,    \* class of the exception the downstream application raised
  logged,     \* logger.exception was called for the request
  outcome     \* how the middleware call ended

vars == <<calls, middleware_class, policy, strict, request, path, pc, emitted, wire, app_calls, app_exc, logged, outcome>>

\* ---- attributes computed by StarletteCORSMiddleware.__init__ ----
allow_all_origins == "*" \in policy.allow_origins

allow_all_headers == "*" \in policy.allow_headers

allow_methods == IF "*" \in policy.allow_methods THEN ALL_METHODS ELSE policy.allow_methods

preflight_explicit_allow_origin == (~allow_all_origins) \/ policy.allow_credentials

\* ", ".join(allow_methods)
JoinedMethods ==
  IF "*" \in policy.allow_methods
  THEN "DELETE, GET, HEAD, OPTIONS, PATCH, POST, PUT"
  ELSE "GET"

\* Variant: the wildcard entry is left out of the simple headers.
simple_headers_NoOrigin ==
  IF policy.allow_credentials
  THEN <<(<<"Access-Control-Allow-Credentials", "true">>)>> ELSE <<>>

simple_headers ==
     (IF allow_all_origins THEN <<(<<"Access-Control-Allow-Origin", "*">>)>> ELSE <<>>)
  \o (IF policy.allow_credentials
      THEN <<(<<"Access-Control-Allow-Credentials", "true">>)>> ELSE <<>>)

preflight_headers ==
     (IF preflight_explicit_allow_origin
      THEN <<(<<"Vary", "Origin">>)>>
      ELSE <<(<<"Access-Control-Allow-Origin", "*">>)>>)
  \o << <<"Access-Control-Allow-Methods", JoinedMethods>>,
        <<"Access-Control-Max-Age", "600">> >>
  \o (IF ~allow_all_headers
      THEN <<(<<"Access-Control-Allow-Headers",
                "Accept, Accept-Language, Content-Language, Content-Type">>)>>
      ELSE <<>>)
  \o (IF policy.allow_credentials
      THEN <<(<<"Access-Control-Allow-Credentials", "true">>)>> ELSE <<>>)

\* ---- Origin Policy Evaluator ----
\* Variant: every origin is allowed.
is_allowed_origin_Any(origin) == TRUE

is_allowed_origin(origin) ==
  IF allow_all_origins THEN TRUE
  ELSE IF origin \in policy.allow_origin_regex THEN TRUE
  ELSE origin \in policy.allow_origins

\* Variant: the Vary header is added but the origin is not written.
allow_explicit_origin_VaryOnly(headers, origin) == add_vary_header(headers, "Origin")

allow_explicit_origin(headers, origin) ==
  add_vary_header(HeadersSetItem(headers, "Access-Control-Allow-Origin", origin), "Origin")

\* ---- messages ----
StartMsg(status, has_headers, headers) ==
  [type |-> "http.response.start", status |-> status, has_headers |-> has_headers,
   headers |-> headers, body |-> "", more_body |-> FALSE]

BodyMsg(body, more_body) ==
  [type |-> "http.response.body", status |-> 0, has_headers |-> FALSE,
   headers |-> <<>>, body |-> body, more_body |-> more_body]

\* Variant: the body chunk announces more body to follow.
ResponseMessages_MoreBody(status, raw_headers, body) ==
  << StartMsg(status, TRUE, raw_headers), BodyMsg(body, TRUE) >>

\* Response.__call__: one start message, then the whole body in one chunk.
ResponseMessages(status, raw_headers, body) ==
  << StartMsg(status, TRUE, raw_headers), BodyMsg(body, FALSE) >>

\* Response.init_headers for a response constructed with a body: the given
\* headers lower-cased, then content-length and content-type when missing.
init_headers(d, body, media_type) ==
  LET raw == RawHeaders(d)
      withLen == IF HeadersContains(raw, "content-length") THEN raw
                 ELSE Append(raw, <<"content-length", ToString(Len(body))>>)
  IN IF HeadersContains(raw, "content-type") THEN withLen
     ELSE Append(withLen, <<"content-type", media_type>>)

\* CommonResponse(message=m).model_dump() rendered as compact JSON.
model_dump(message) == [message |-> message]

render(content) == "{\"message\":\"" \o content.message \o "\"}"

\* app.general_exception_handler: the response the generic handler returns.
general_exception_handler ==
  [status_code |-> HTTP_500_INTERNAL_SERVER_ERROR,
   body |-> render(model_dump("error"))]

\* StarletteCORSMiddleware.preflight_response(request_headers)
preflight_response(req) ==
  LET h0 == preflight_headers
      originOk == is_allowed_origin(req.origin)
      h1 == IF originOk /\ preflight_explicit_allow_origin
            THEN DictSet(h0, "Access-Control-Allow-Origin", req.origin) ELSE h0
      methodOk == req.acrm \in allow_methods
      h2 == IF allow_all_headers /\ req.acrh # None
            THEN DictSet(h1, "Access-Control-Allow-Headers", req.acrh) ELSE h1
      headersOk == allow_all_headers \/ req.acrh = None
                   \/ req.acrh \in {"accept", "accept-language", "content-language", "content-type"}
      failures == (IF originOk THEN <<>> ELSE <<"origin">>)
                  \o (IF methodOk THEN <<>> ELSE <<"method">>)
                  \o (IF headersOk THEN <<>> ELSE <<"headers">>)
      text == IF failures = <<>> THEN "OK"
              ELSE IF Len(failures) = 1 THEN "Disallowed CORS " \o failures[1]
              ELSE IF Len(failures) = 2
                   THEN "Disallowed CORS " \o failures[1] \o ", " \o failures[2]
              ELSE "Disallowed CORS " \o failures[1] \o ", " \o failures[2] \o ", " \o failures[3]
      status == IF failures = <<>> THEN 200 ELSE 400
  IN ResponseMessages(status, init_headers(h2, text, "text/plain; charset=utf-8"), text)

\* The preflight test of CORSMiddleware.__call__.
\* Variant: the test looks at Access-Control-Request-Headers.
is_preflight_WrongHeader(r) == r.method = "OPTIONS" /\ r.acrh # None

is_preflight(r) == r.method = "OPTIONS" /\ r.acrm # None

\* ---- Response Stream Interceptor ----
\* Variant: the simple headers are not merged into the start message.
send_wrapper_SkipSimple(message, req) ==
  IF message.type = "http.response.start"
  THEN LET h0 == IF message.has_headers THEN message.headers ELSE <<>>
           h2 == IF allow_all_origins /\ req.cookie
                 THEN allow_explicit_origin(h0, req.origin)
                 ELSE IF (~allow_all_origins) /\ is_allowed_origin(req.origin)
                      THEN allow_explicit_origin(h0, req.origin)
                      ELSE h0
       IN [message EXCEPT !.has_headers = TRUE, !.headers = h2]
  ELSE message

\* Variant: under a wildcard policy the origin is echoed whether or not the
\* request carries a Cookie header.
send_wrapper_AlwaysEcho(message, req) ==
  IF message.type = "http.response.start"
  THEN LET h0 == IF message.has_headers THEN message.headers ELSE <<>>
           h1 == HeadersUpdate(h0, simple_headers)
           h2 == IF allow_all_origins
                 THEN allow_explicit_origin(h1, req.origin)
                 ELSE IF is_allowed_origin(req.origin)
                      THEN allow_explicit_origin(h1, req.origin)
                      ELSE h1
       IN [message EXCEPT !.has_headers = TRUE, !.headers = h2]
  ELSE message

\* Variant: the start message's header list is rebuilt from the CORS headers
\* alone instead of being merged into.
send_wrapper_ReplaceHeaders(message, req) ==
  IF message.type = "http.response.start"
  THEN LET h1 == HeadersUpdate(<<>>, simple_headers)
           h2 == IF allow_all_origins /\ req.cookie
                 THEN allow_explicit_origin(h1, req.origin)
                 ELSE IF (~allow_all_origins) /\ is_allowed_origin(req.origin)
                      THEN allow_explicit_origin(h1, req.origin)
                      ELSE h1
       IN [message EXCEPT !.has_headers = TRUE, !.headers = h2]
  ELSE message

\* The send_wrapper closure of CORSMiddleware.__call__: the message it passes
\* to the original send channel for a message the application gave it.
send_wrapper(message, req) ==
  IF message.type = "http.response.start"
  THEN LET h0 == IF message.has_headers THEN message.headers ELSE <<>>
           h1 == HeadersUpdate(h0, simple_headers)
           h2 == IF allow_all_origins /\ req.cookie
                 THEN allow_explicit_origin(h1, req.origin)
                 ELSE IF (~allow_all_origins) /\ is_allowed_origin(req.origin)
                      THEN allow_explicit_origin(h1, req.origin)
                      ELSE h1
       IN [message EXCEPT !.has_headers = TRUE, !.headers = h2]
  ELSE message

\* The message the synthesized error response carries in its body.
ERROR_MESSAGE == "error!!"

\* Variant: the error response is sent as JSONResponse built it, with no
\* CORS header stamped on it.
error_response_Bare(req) ==
  LET body == render(model_dump(ERROR_MESSAGE))
  IN ResponseMessages(HTTP_500_INTERNAL_SERVER_ERROR,
                      init_headers(<<>>, body, "application/json"), body)

\* Variant: the except block stamps the simple headers only, without the
\* branch that echoes the origin.
error_response_SimpleOnly(req) ==
  LET body == render(model_dump(ERROR_MESSAGE))
      h0 == init_headers(<<>>, body, "application/json")
  IN ResponseMessages(HTTP_500_INTERNAL_SERVER_ERROR,
                      HeadersUpdate(h0, simple_headers), body)

\* The except block of CORSMiddleware.__call__: the JSONResponse it builds and
\* the headers it stamps on it, as the two messages the response sends.
error_response(req) ==
  LET body == render(model_dump(ERROR_MESSAGE))
      h0 == init_headers(<<>>, body, "application/json")
      h1 == HeadersUpdate(h0, simple_headers)
      h2 == IF allow_all_origins /\ req.cookie
            THEN allow_explicit_origin(h1, req.origin)
            ELSE IF (~allow_all_origins) /\ is_allowed_origin(req.origin)
                 THEN allow_explicit_origin(h1, req.origin)
                 ELSE h1
  IN ResponseMessages(HTTP_500_INTERNAL_SERVER_ERROR, h2, body)

\* ---- the request, the downstream application and the transport ----
Origins == {ORIGIN_A, ORIGIN_UPPER}

HttpRequests ==
  { r \in [type : {"http"}, method : {"GET", "OPTIONS"}, origin : Origins \cup {None},
           cookie : BOOLEAN, acrm : {None, "GET", "PUT"}, acrh : {None, "x-token"}] :
      /\ (r.acrh # None) => (r.acrm = "GET" /\ r.method = "OPTIONS")
      /\ (r.acrm = "PUT") => (r.method = "OPTIONS" /\ ~r.cookie)
      /\ (r.method = "GET" /\ r.acrm # None) => ~r.cookie }

WebSocketRequests ==
  { [type |-> "websocket", method |-> None, origin |-> o, cookie |-> FALSE,
     acrm |-> None, acrh |-> None] : o \in {None, ORIGIN_A} }

Requests == HttpRequests \cup WebSocketRequests

NoRequest ==
  [type |-> None, method |-> None, origin |-> None, cookie |-> FALSE,
   acrm |-> None, acrh |-> None]

\* Header lists the application puts on its own start message.
AppHeaderLists ==
  { << <<"content-type", "application/json">> >>,
    << <<"content-type", "application/json">>,
       <<"access-control-allow-origin", ORIGIN_PIPELINE>>,
       <<"vary", "Accept-Encoding">> >> }

AppStartMessages ==
  { StartMsg(s, TRUE, h) : s \in {200, HTTP_500_INTERNAL_SERVER_ERROR}, h \in AppHeaderLists }
  \cup { StartMsg(200, FALSE, <<>>) }

AppBodyMessages == { BodyMsg("chunk", m) : m \in BOOLEAN }

WsMessages ==
  { [type |-> "websocket.accept", status |-> 0, has_headers |-> FALSE,
     headers |-> <<>>, body |-> "", more_body |-> FALSE] }

\* What the application may hand to its send channel for a request.
AppMessages(req) ==
  IF req.type = "http" THEN AppStartMessages \cup AppBodyMessages ELSE WsMessages

\* Exception classes the application may raise: an ordinary Exception, or the
\* BaseException a cancelled task receives.
ExceptionClasses == {"Exception", "CancelledError"}

Accepted(w) == SelectSeq(w, LAMBDA e : e.accepted)

response_started(w) ==
  \E i \in 1..Len(w) : w[i].accepted /\ w[i].msg.type = "http.response.start"

response_complete(w) ==
  \E i \in 1..Len(w) :
    w[i].accepted /\ w[i].msg.type = "http.response.body" /\ ~w[i].msg.more_body

\* The transport's view of a message given what it accepted so far: a second
\* start, a body before the start or a body after the last chunk is out of
\* protocol.
InProtocol(m, w) ==
  CASE m.type = "http.response.start" -> ~response_started(w)
    [] m.type = "http.response.body" -> response_started(w) /\ ~response_complete(w)
    [] OTHER -> TRUE

\* Whether the transport's send takes message m or raises.  A strict
\* transport (uvicorn, the test client) raises on an out-of-protocol message,
\* a lenient one takes whatever it is given.
TransportAccepts(m, w) == InProtocol(m, w) \/ ~strict

WireEntry(m, via, accepted) == [msg |-> m, via |-> via, accepted |-> accepted]

\* ---- calls in flight at once ----
\* Most messages an application emits per call when calls are interleaved.
MaxConcEvents == 1

\* Two tasks run __call__ on the one middleware object.
Slots == {1, 2}

\* A call that has not begun: no scope, nothing sent.
IdleCall == [request |-> NoRequest, pc |-> "idle", emitted |-> <<>>, wire |-> <<>>]

\* Plain requests, with or without an Origin header and a cookie.
ConcRequests ==
  { r \in HttpRequests : r.method = "GET" /\ r.acrm = None /\ (r.origin = None => ~r.cookie) }

\* What an application hands to its send channel: a start message with or
\* without CORS headers of its own, or the final body chunk.
ConcAppMessages ==
  { StartMsg(200, TRUE, h) : h \in AppHeaderLists } \cup { BodyMsg("chunk", FALSE) }

\* Variant: the request headers are read from where the other call in flight
\* left its own, as if they were kept on the middleware object.
call_headers_Shared(s) ==
  IF \E t \in Slots \ {s} : calls[t].request.origin # None
  THEN calls[CHOOSE t \in Slots \ {s} : calls[t].request.origin # None].request
  ELSE calls[s].request

\* The locals headers and origin of the call in slot s, which its send_wrapper
\* closure and its except block read.
call_headers(s) == calls[s].request

\* ---------------------------------------------------------------- actions
Init ==
  /\ calls = [s \in Slots |-> IdleCall]
  /\ middleware_class = "custom"
  /\ policy \in Policies
  /\ strict \in BOOLEAN
  /\ request = NoRequest
  /\ path = None
  /\ pc = "idle"
  /\ emitted = <<>>
  /\ wire = <<>>
  /\ app_calls = 0
  /\ app_exc = None
  /\ logged = FALSE
  /\ outcome = None

\* CORSMiddleware.__call__ up to the point where it awaits the application
\* (or, for a preflight, up to its return).
Call(r) ==
  /\ pc = "idle"
  /\ request' = r
  /\ emitted' = <<>>
  /\ app_exc' = None
  /\ logged' = FALSE
  /\ IF r.type # "http" \/ r.origin = None
     THEN /\ path' = "PassThrough"
          /\ pc' = "app"
          /\ app_calls' = 1
          /\ wire' = <<>>
          /\ outcome' = None
     ELSE IF is_preflight(r)
     THEN LET response == preflight_response(r)
          IN /\ path' = "PreflightShortCircuit"
             /\ pc' = "done"
             /\ app_calls' = 0
             /\ wire' = << WireEntry(response[1], "preflight", TRUE),
                           WireEntry(response[2], "preflight", TRUE) >>
             /\ outcome' = "returned"
     ELSE /\ path' = "Intercepted"
          /\ pc' = "app"
          /\ app_calls' = 1
          /\ wire' = <<>>
          /\ outcome' = None
  /\ UNCHANGED <<calls, middleware_class, policy, strict>>

\* Variant: the failure boundary also encloses the pass-through call.
Raised_AnyPath(cls) ==
  /\ app_exc' = cls
  /\ IF cls = "Exception"
     THEN pc' = "except" /\ outcome' = outcome
     ELSE pc' = "done" /\ outcome' = "raised"

\* Variant: the except clause catches every BaseException.
Raised_CatchAll(cls) ==
  /\ app_exc' = cls
  /\ IF path = "Intercepted"
     THEN pc' = "except" /\ outcome' = outcome
     ELSE pc' = "done" /\ outcome' = "raised"

\* Where control goes when an exception of class cls leaves self.app.  Only
\* the custom class has a failure boundary; the stock class lets it travel on.
Raised(cls) ==
  /\ app_exc' = cls
  /\ IF middleware_class = "custom" /\ path = "Intercepted" /\ cls = "Exception"
     THEN pc' = "except" /\ outcome' = outcome
     ELSE pc' = "done" /\ outcome' = "raised"

\* The application awaits its send channel with message m.  On the
\* intercepted path the channel is send_wrapper, otherwise the original send.
\* A transport that refuses an out-of-protocol message raises, and the
\* exception travels back through the application.
AppSend(m) ==
  /\ pc = "app"
  /\ Len(emitted) < MaxEvents
  /\ m \in AppMessages(request)
  /\ emitted' = Append(emitted, m)
  /\ LET out == IF path = "Intercepted" THEN send_wrapper(m, request) ELSE m
         via == IF path = "Intercepted" THEN "send_wrapper" ELSE "app"
         accepted == TransportAccepts(out, wire)
     IN /\ wire' = Append(wire, WireEntry(out, via, accepted))
        /\ IF accepted
           THEN UNCHANGED <<pc, app_exc, outcome>>
           ELSE Raised("Exception")
  /\ UNCHANGED <<calls, middleware_class, policy, strict, request, path, app_calls, logged>>

\* The application raises.
AppRaise(cls) ==
  /\ pc = "app"
  /\ cls \in ExceptionClasses
  /\ Raised(cls)
  /\ UNCHANGED <<calls, middleware_class, policy, strict, request, path, emitted, wire, app_calls, logged>>

\* The application returns.
AppReturn ==
  /\ pc = "app"
  /\ pc' = "done"
  /\ outcome' = "returned"
  /\ UNCHANGED <<calls, middleware_class, policy, strict, request, path, emitted, wire, app_calls, app_exc, logged>>

\* The except block of CORSMiddleware.__call__: log, build the error response,
\* send it through the original send channel.
ExceptBlock ==
  /\ pc = "except"
  /\ logged' = TRUE
  /\ LET response == error_response(request)
         a1 == TransportAccepts(response[1], wire)
         w1 == Append(wire, WireEntry(response[1], "except", a1))
         a2 == TransportAccepts(response[2], w1)
     IN IF a1
        THEN /\ wire' = Append(w1, WireEntry(response[2], "except", a2))
             /\ outcome' = IF a2 THEN "returned" ELSE "raised"
        ELSE /\ wire' = w1
             /\ outcome' = "raised"
  /\ pc' = "done"
  /\ UNCHANGED <<calls, middleware_class, policy, strict, request, path, emitted, app_calls, app_exc>>

\* The call is over: its locals (scope, headers, origin, the send_wrapper
\* closure) are dropped and the middleware is ready for the next request.
Finish ==
  /\ pc \in {"done", "reraised"}
  /\ request' = NoRequest
  /\ path' = None
  /\ pc' = "idle"
  /\ emitted' = <<>>
  /\ wire' = <<>>
  /\ app_calls' = 0
  /\ app_exc' = None
  /\ logged' = FALSE
  /\ outcome' = None
  /\ UNCHANGED <<calls, middleware_class, policy, strict>>

Next ==
  \/ \E r \in Requests : Call(r)
  \/ \E cls \in ExceptionClasses : AppRaise(cls)
  \/ \E m \in AppStartMessages \cup AppBodyMessages \cup WsMessages : AppSend(m)
  \/ AppReturn
  \/ ExceptBlock
  \/ Finish

Spec == Init /\ [][Next]_vars

\* The step ExceptBlock takes, seen on the position of the call alone.
ExceptBlockRuns == pc = "except" /\ pc' = "done"

\* Once the exception has reached the except clause the block runs to its end:
\* it awaits nothing but the original send channel.
SpecFair == Spec /\ WF_pc(ExceptBlockRuns)

\* ---- the application stack of the tests: ServerErrorMiddleware around the
\* ---- CORS middleware class under test, around the routes
MiddlewareClasses == {"default", "custom"}

\* The response general_exception_handler returns, as the two messages it sends.
handler_messages ==
  LET r == general_exception_handler
  IN ResponseMessages(r.status_code, init_headers(<<>>, r.body, "application/json"), r.body)

\* Some start message went through the send channel the outermost layer gave
\* to the layers below it.
stack_response_started ==
  \E i \in 1..Len(wire) : wire[i].msg.type = "http.response.start"

\* Variant: the handler's response is passed through the CORS send wrapper.
ServerError_ThroughWrapper ==
  /\ pc = "done" /\ outcome = "raised" /\ app_exc = "Exception"
  /\ request.type = "http"
  /\ LET response == << send_wrapper(handler_messages[1], request), handler_messages[2] >>
         a1 == TransportAccepts(response[1], wire)
         w1 == Append(wire, WireEntry(response[1], "server_error", a1))
         a2 == TransportAccepts(response[2], w1)
     IN wire' = IF stack_response_started THEN wire
                ELSE IF a1 THEN Append(w1, WireEntry(response[2], "server_error", a2))
                ELSE w1
  /\ pc' = "reraised"
  /\ UNCHANGED <<calls, middleware_class, policy, strict, request, path, emitted, app_calls, app_exc, logged, outcome>>

\* The outermost layer, where the handler registered for Exception runs: an
\* Exception that left the CORS middleware is turned into the handler's
\* response, sent on the original send channel unless a response was already
\* started, and the exception is raised again.
ServerError ==
  /\ pc = "done" /\ outcome = "raised" /\ app_exc = "Exception"
  /\ request.type = "http"
  /\ LET response == handler_messages
         a1 == TransportAccepts(response[1], wire)
         w1 == Append(wire, WireEntry(response[1], "server_error", a1))
         a2 == TransportAccepts(response[2], w1)
     IN wire' = IF stack_response_started THEN wire
                ELSE IF a1 THEN Append(w1, WireEntry(response[2], "server_error", a2))
                ELSE w1
  /\ pc' = "reraised"
  /\ UNCHANGED <<calls, middleware_class, policy, strict, request, path, emitted, app_calls, app_exc, logged, outcome>>

\* create_app(middleware_class) for either class of the client fixture.
InitStack ==
  /\ calls = [s \in Slots |-> IdleCall]
  /\ middleware_class \in MiddlewareClasses
  /\ policy \in Policies
  /\ strict \in BOOLEAN
  /\ request = NoRequest
  /\ path = None
  /\ pc = "idle"
  /\ emitted = <<>>
  /\ wire = <<>>
  /\ app_calls = 0
  /\ app_exc = None
  /\ logged = FALSE
  /\ outcome = None

NextStack ==
  \/ \E r \in Requests : Call(r)
  \/ \E cls \in ExceptionClasses : AppRaise(cls)
  \/ \E m \in AppStartMessages \cup AppBodyMessages \cup WsMessages : AppSend(m)
  \/ AppReturn
  \/ ExceptBlock
  \/ ServerError
  \/ Finish

SpecStack == InitStack /\ [][NextStack]_vars

\* ---- interleaved calls on one middleware object ----
\* Everything that belongs to the single call followed by the actions above.
single_call_vars ==
  <<middleware_class, strict, request, path, pc, emitted, wire, app_calls, app_exc, logged, outcome>>

\* __call__ begins in slot s and reaches the await of the application.
ConcCall(s, r) ==
  /\ calls[s].pc = "idle"
  /\ calls' = [calls EXCEPT ![s] = [request |-> r, pc |-> "app", emitted |-> <<>>, wire |-> <<>>]]
  /\ UNCHANGED <<policy, single_call_vars>>

\* The application of slot s awaits its send channel with message m.
ConcAppSend(s, m) ==
  /\ calls[s].pc = "app"
  /\ Len(calls[s].emitted) < MaxConcEvents
  /\ LET intercepted == calls[s].request.origin # None
         out == IF intercepted THEN send_wrapper(m, call_headers(s)) ELSE m
         via == IF intercepted THEN "send_wrapper" ELSE "app"
     IN calls' = [calls EXCEPT ![s].emitted = Append(@, m),
                               ![s].wire = Append(@, [msg |-> out, via |-> via])]
  /\ UNCHANGED <<policy, single_call_vars>>

\* The application of slot s raises an Exception.
ConcAppRaise(s) ==
  /\ calls[s].pc = "app"
  /\ calls' = [calls EXCEPT ![s].pc = IF calls[s].request.origin # None THEN "except" ELSE "done"]
  /\ UNCHANGED <<policy, single_call_vars>>

\* The application of slot s returns.
ConcAppReturn(s) ==
  /\ calls[s].pc = "app"
  /\ calls' = [calls EXCEPT ![s].pc = "done"]
  /\ UNCHANGED <<policy, single_call_vars>>

\* The except block of the call in slot s.
ConcExceptBlock(s) ==
  /\ calls[s].pc = "except"
  /\ LET response == error_response(call_headers(s))
     IN calls' = [calls EXCEPT ![s].pc = "done",
                               ![s].wire = @ \o << [msg |-> response[1], via |-> "except"],
                                                    [msg |-> response[2], via |-> "except"] >>]
  /\ UNCHANGED <<policy, single_call_vars>>

\* The call in slot s is over and the slot serves the next request.
ConcFinish(s) ==
  /\ calls[s].pc = "done"
  /\ calls' = [calls EXCEPT ![s] = IdleCall]
  /\ UNCHANGED <<policy, single_call_vars>>

\* Every slot idle; each call has a send channel of its own, which takes
\* whatever it is given.
InitConc == Init /\ ~strict

NextConc ==
  \/ \E s \in Slots, r \in ConcRequests : ConcCall(s, r)
  \/ \E s \in Slots, m \in ConcAppMessages : ConcAppSend(s, m)
  \/ \E s \in Slots : ConcAppRaise(s)
  \/ \E s \in Slots : ConcAppReturn(s)
  \/ \E s \in Slots : ConcExceptBlock(s)
  \/ \E s \in Slots : ConcFinish(s)

SpecConc == InitConc /\ [][NextConc]_vars

\* ------------------------------------------------------------- properties
ACAO == "access-control-allow-origin"

\* The values of all Access-Control-Allow-Origin entries of a message.
AcaoValues(m) == { m.headers[i][2] : i \in FoundIndexes(m.headers, ACAO) }

\* Positions of the start messages handed to the transport.
WireStarts == { i \in 1..Len(wire) : wire[i].msg.type = "http.response.start" }

\* A start message of the application went through send_wrapper and was
\* taken by the transport.
StartForwarded ==
  \E i \in WireStarts : wire[i].via = "send_wrapper" /\ wire[i].accepted

\* An HTTP request with an Origin header is being served or was just served.
HttpWithOrigin == request.type = "http" /\ request.origin # None

\* C1: non-preflight request with Origin under a wildcard policy; when the
\* application raises an Exception before any start message was forwarded,
\* the transport gets a start message with status 500 that carries
\* Access-Control-Allow-Origin, and no 500 without that header.
C1_ErrorCarriesAllowOrigin ==
  (pc = "done" /\ path = "Intercepted" /\ allow_all_origins
   /\ app_exc = "Exception" /\ ~StartForwarded)
  => /\ \E i \in WireStarts :
          /\ wire[i].accepted
          /\ wire[i].msg.status = HTTP_500_INTERNAL_SERVER_ERROR
          /\ AcaoValues(wire[i].msg) # {}
     /\ \A i \in WireStarts :
          wire[i].msg.status = HTTP_500_INTERNAL_SERVER_ERROR
          => AcaoValues(wire[i].msg) # {}

C1_Witness ==
  /\ pc = "done" /\ path = "Intercepted" /\ allow_all_origins
  /\ app_exc = "Exception" /\ emitted = <<>>
  /\ Len(wire) = 2 /\ wire[1].via = "except" /\ wire[1].accepted

\* C2: non-preflight request with Origin under a wildcard policy; every
\* start message the application emits is handed to the transport, in its
\* place in the stream, with the status the application gave it and with
\* Access-Control-Allow-Origin among its headers.
C2_StartForwardedWithAllowOrigin ==
  (path = "Intercepted" /\ allow_all_origins)
  => /\ Len(wire) >= Len(emitted)
     /\ \A i \in 1..Len(emitted) :
          emitted[i].type = "http.response.start"
          => /\ wire[i].via = "send_wrapper"
             /\ wire[i].msg.type = "http.response.start"
             /\ wire[i].msg.status = emitted[i].status
             /\ AcaoValues(wire[i].msg) # {}

C2_Witness ==
  /\ path = "Intercepted" /\ allow_all_origins /\ pc = "done" /\ outcome = "returned"
  /\ app_exc = None /\ Len(emitted) = 2
  /\ emitted[1].type = "http.response.start"
  /\ emitted[1].status = HTTP_500_INTERNAL_SERVER_ERROR
  /\ AcaoValues(emitted[1]) = {}
  /\ wire[1].accepted /\ wire[2].accepted

\* C3: non-preflight request with Origin; an Exception leaving the
\* application is turned into a synthesized 500 response and the middleware
\* call returns normally instead of raising to its caller.
C3_ExceptionAbsorbed ==
  (pc = "done" /\ path = "Intercepted" /\ app_exc = "Exception")
  => /\ outcome = "returned"
     /\ \E i \in WireStarts :
          /\ wire[i].via = "except" /\ wire[i].accepted
          /\ wire[i].msg.status = HTTP_500_INTERNAL_SERVER_ERROR

C5_CookieEchoesOrigin ==
  (HttpWithOrigin /\ allow_all_origins /\ policy.allow_credentials /\ request.cookie)
  => \A i \in WireStarts : AcaoValues(wire[i].msg) = {request.origin}

C5_Witness ==
  /\ HttpWithOrigin /\ allow_all_origins /\ policy.allow_credentials /\ request.cookie
  /\ path = "Intercepted" /\ pc = "done"
  /\ \E i, j \in WireStarts :
       /\ wire[i].via = "send_wrapper" /\ wire[j].via = "except"
       /\ AcaoValues(emitted[i]) = {ORIGIN_PIPELINE}
       /\ AcaoValues(wire[i].msg) = {request.origin}

\* C6 as stated: wildcard policy with credentials, request with Origin;
\* no start message handed to the transport has Access-Control-Allow-Origin
\* equal to *, the request origin is echoed whatever headers the request has.
C6_NeverStar ==
  (HttpWithOrigin /\ allow_all_origins /\ policy.allow_credentials)
  => \A i \in WireStarts : AcaoValues(wire[i].msg) = {request.origin}

\* C6 (amended): wildcard policy with credentials, request with Origin;
\* Access-Control-Allow-Origin is * exactly on the responses to non-preflight
\* requests without a Cookie header, and the request origin on all others.
C6_StarOnlyWithoutCookie ==
  (HttpWithOrigin /\ allow_all_origins /\ policy.allow_credentials)
  => \A i \in WireStarts :
       AcaoValues(wire[i].msg) =
         {IF path = "Intercepted" /\ ~request.cookie THEN "*" ELSE request.origin}

C6_Witness ==
  /\ HttpWithOrigin /\ allow_all_origins /\ policy.allow_credentials
  /\ path = "Intercepted" /\ ~request.cookie /\ pc = "done" /\ outcome = "returned"
  /\ app_exc = None
  /\ \E i \in WireStarts : wire[i].accepted /\ AcaoValues(wire[i].msg) = {"*"}

\* C7: HTTP request without Origin; the application is invoked with the
\* original send channel, so the transport is handed exactly the messages
\* the application emitted, the middleware logs and synthesizes nothing, and
\* an exception of the application leaves the middleware call.
C7_NoOriginPassThrough ==
  (request.type = "http" /\ request.origin = None)
  => /\ path = "PassThrough"
     /\ app_calls = 1
     /\ Len(wire) = Len(emitted)
     /\ \A i \in 1..Len(wire) : wire[i].msg = emitted[i] /\ wire[i].via = "app"
     /\ ~logged
     /\ pc # "except"
     /\ (pc = "done" /\ app_exc # None) => outcome = "raised"

C7_Witness ==
  /\ request.type = "http" /\ request.origin = None /\ pc = "done"
  /\ app_exc = "Exception" /\ outcome = "raised"
  /\ Len(emitted) = 1 /\ emitted[1].type = "http.response.start"
  /\ emitted[1].status = HTTP_500_INTERNAL_SERVER_ERROR
  /\ wire[1].accepted

\* C8: OPTIONS request with Origin and Access-Control-Request-Method; the
\* preflight response goes straight to the original send channel and the
\* application is never invoked: no message from it, no send_wrapper, no
\* except block.
C8_PreflightShortCircuit ==
  (HttpWithOrigin /\ request.method = "OPTIONS" /\ request.acrm # None)
  => /\ path = "PreflightShortCircuit"
     /\ pc = "done"
     /\ app_calls = 0
     /\ emitted = <<>>
     /\ app_exc = None
     /\ ~logged
     /\ outcome = "returned"
     /\ Len(wire) = 2
     /\ \A i \in 1..Len(wire) :
          /\ wire[i].via = "preflight"
          /\ wire[i].accepted
          /\ wire[i].msg = preflight_response(request)[i]

C8_Witness ==
  /\ HttpWithOrigin /\ request.method = "OPTIONS" /\ request.acrm = "GET"
  /\ request.acrh = None
  /\ path = "PreflightShortCircuit" /\ app_calls = 0 /\ Len(wire) = 2
  /\ wire[1].msg.status = 200

\* The request origin is a case-sensitive exact member of the allow-list.
OriginListed == request.origin \in policy.allow_origins

\* Explicit allow-list and nothing else: no wildcard, no origin regex.
ExplicitListPolicy == ~allow_all_origins /\ policy.allow_origin_regex = {}

\* C9 as stated: explicit allow-list, non-preflight request with Origin; the
\* application is invoked, and a start message handed to the transport has
\* Access-Control-Allow-Origin iff the origin is a member of the list, with
\* the request origin as its value.
C9_AllowOriginIffListed ==
  (ExplicitListPolicy /\ path = "Intercepted")
  => /\ app_calls = 1
     /\ \A i \in WireStarts :
          /\ (AcaoValues(wire[i].msg) # {}) <=> OriginListed
          /\ OriginListed => AcaoValues(wire[i].msg) = {request.origin}

\* C9 (amended): explicit allow-list, non-preflight request with Origin; the
\* application is invoked; when the origin is a member of the list every
\* start message handed to the transport has Access-Control-Allow-Origin
\* equal to the request origin; when it is not, the middleware adds none:
\* the synthesized error response has no such header and a forwarded start
\* message has exactly the values the application itself put on it.
C9_AllowOriginAddedIffListed ==
  (ExplicitListPolicy /\ path = "Intercepted")
  => /\ app_calls = 1
     /\ \A i \in WireStarts :
          AcaoValues(wire[i].msg) =
            IF OriginListed THEN {request.origin}
            ELSE IF wire[i].via = "except" THEN {}
            ELSE AcaoValues(emitted[i])

C9_Witness ==
  /\ ExplicitListPolicy /\ path = "Intercepted" /\ ~OriginListed /\ pc = "done"
  /\ \E i, j \in WireStarts :
       /\ wire[i].via = "send_wrapper" /\ wire[j].via = "except"
       /\ AcaoValues(wire[i].msg) = {ORIGIN_PIPELINE}
       /\ AcaoValues(wire[j].msg) = {}

\* C10: the response synthesized in the except block has status 500 and the
\* body of the response general_exception_handler returns.
C10_SameAsGenericHandler ==
  \A i \in 1..Len(wire) :
    wire[i].via = "except"
    => IF wire[i].msg.type = "http.response.start"
       THEN wire[i].msg.status = general_exception_handler.status_code
       ELSE wire[i].msg.body = general_exception_handler.body

\* Names of the CORS headers the two paths write.
CorsNames == {ACAO, "access-control-allow-credentials", "vary"}

\* The CORS entries of a raw header list, in order.
CorsPart(h) == SelectSeq(h, LAMBDA e : e[1] \in CorsNames)

\* C11: for every policy and request, the CORS headers on the synthesized
\* error response are the CORS headers send_wrapper puts on a start message
\* of the application that carries none of its own: Access-Control-Allow-Origin,
\* Access-Control-Allow-Credentials and Vary agree on the two paths.
C11_ErrorPathMatchesSuccessPath ==
  (path = "Intercepted")
  => \A i, j \in WireStarts :
       (wire[i].via = "send_wrapper" /\ wire[j].via = "except"
        /\ CorsPart(IF emitted[i].has_headers THEN emitted[i].headers ELSE <<>>) = <<>>)
       => CorsPart(wire[j].msg.headers) = CorsPart(wire[i].msg.headers)

C11_Witness ==
  /\ path = "Intercepted" /\ pc = "done" /\ request.cookie
  /\ is_allowed_origin(request.origin) /\ policy.allow_credentials
  /\ \E i, j \in WireStarts :
       /\ wire[i].via = "send_wrapper" /\ wire[j].via = "except"
       /\ emitted[i].headers = << <<"content-type", "application/json">> >>
       /\ Len(CorsPart(wire[j].msg.headers)) = 3
       /\ CorsPart(wire[j].msg.headers) = CorsPart(wire[i].msg.headers)

\* The request's origin is one the policy allows.
OriginAllowed == allow_all_origins \/ is_allowed_origin(request.origin)

\* The wire holds exactly one start message: an accepted 500 sent by layer via.
OnlyStartIs500From(via) ==
  /\ Cardinality(WireStarts) = 1
  /\ \A i \in WireStarts :
       wire[i].accepted /\ wire[i].via = via
       /\ wire[i].msg.status = HTTP_500_INTERNAL_SERVER_ERROR

EmittedStarts == { i \in 1..Len(emitted) : emitted[i].type = "http.response.start" }

\* C13: whatever the application does, raising after its start message was
\* forwarded included, the original send channel is given at most one start
\* message per request: an application that emits at most one start message
\* never leads to a second one on the wire.
C13_AtMostOneStart ==
  (path = "Intercepted" /\ Cardinality(EmittedStarts) <= 1)
  => Cardinality(WireStarts) <= 1

\* C14: send_wrapper never hands the transport a message that is out of
\* protocol at that point of the stream (a second start, or a body chunk
\* before any start).
C14_MalformedNotForwarded ==
  \A i \in 1..Len(wire) :
    wire[i].via = "send_wrapper" => InProtocol(wire[i].msg, SubSeq(wire, 1, i - 1))

\* The entries of a raw header list whose names are not CORS header names.
OtherPart(h) == SelectSeq(h, LAMBDA e : e[1] \notin CorsNames)

\* The header list of a message, [] when it has no "headers" key.
HeadersOf(m) == IF m.has_headers THEN m.headers ELSE <<>>

\* C15: on the intercepted path send_wrapper forwards each message exactly
\* once and in order; body chunks are forwarded unchanged; of a start message
\* only the header list changes: the status is kept, every header with a
\* non-CORS name is kept in place, and a Vary value of the application is
\* kept, possibly extended by ", Origin".
C15_OnlyStartHeadersRewritten ==
  (path = "Intercepted")
  => /\ Len(wire) >= Len(emitted)
     /\ \A i \in 1..Len(wire) : (wire[i].via = "send_wrapper") <=> (i <= Len(emitted))
     /\ \A i \in 1..Len(emitted) :
          IF emitted[i].type = "http.response.start"
          THEN /\ wire[i].msg.type = emitted[i].type
               /\ wire[i].msg.status = emitted[i].status
               /\ wire[i].msg.body = emitted[i].body
               /\ wire[i].msg.more_body = emitted[i].more_body
               /\ OtherPart(wire[i].msg.headers) = OtherPart(HeadersOf(emitted[i]))
               /\ HeadersContains(HeadersOf(emitted[i]), "vary")
                  => HeadersGet(wire[i].msg.headers, "vary")
                       \in { HeadersGet(emitted[i].headers, "vary"),
                             HeadersGet(emitted[i].headers, "vary") \o ", Origin" }
          ELSE wire[i].msg = emitted[i]

C15_Witness ==
  /\ path = "Intercepted" /\ pc = "done" /\ outcome = "returned" /\ app_exc = None
  /\ Len(emitted) = 2 /\ Len(wire) = 2
  /\ emitted[1].type = "http.response.start"
  /\ emitted[1].headers = << <<"content-type", "application/json">> >>
  /\ wire[1].msg.headers # emitted[1].headers
  /\ emitted[2].type = "http.response.body" /\ wire[2].msg = emitted[2]

\* The Access-Control-Allow-Origin value the policy emits for the request
\* being served, None when it emits none.
PolicyAllowOrigin ==
  IF allow_all_origins
  THEN (IF request.cookie THEN request.origin ELSE "*")
  ELSE (IF is_allowed_origin(request.origin) THEN request.origin ELSE None)

PathOf(r) ==
  IF r.type # "http" \/ r.origin = None THEN "PassThrough"
  ELSE IF r.method = "OPTIONS" /\ r.acrm # None THEN "PreflightShortCircuit"
  ELSE "Intercepted"

\* Order of the positions of one middleware call.
Rank(p) == CASE p = "idle" -> 0 [] p = "app" -> 1 [] p = "except" -> 2 [] p = "done" -> 3

\* C17: a request takes exactly one of the paths PassThrough (non-HTTP scope
\* or no Origin, tested first), PreflightShortCircuit (Origin, OPTIONS and
\* Access-Control-Request-Method) and Intercepted (every other request with
\* Origin); the path is determined by the request when the call starts, the
\* request and its path do not change during the call, the call never goes
\* back to an earlier position, and only the intercepted path enters the
\* except block.
C17_OnePathPerRequest ==
  /\ [](pc # "idle" => path = PathOf(request))
  /\ []((pc = "except" \/ logged) => path = "Intercepted")
  /\ [][ /\ (pc # "idle" /\ pc' # "idle") => (path' = path /\ request' = request)
         /\ (pc # "done") => Rank(pc') >= Rank(pc)
         /\ (pc = "done") => pc' \in {"done", "idle"} ]_vars

C17_Witness ==
  /\ request.type = "http" /\ request.method = "OPTIONS" /\ request.acrm = "GET"
  /\ request.origin = None
  /\ path = "PassThrough" /\ pc = "done" /\ app_exc = "Exception" /\ outcome = "raised"

\* The Access-Control-Allow-Origin value the policy emits for request req,
\* None when it emits none.
ExpectedAllowOrigin(req) ==
  IF allow_all_origins
  THEN (IF req.cookie THEN req.origin ELSE "*")
  ELSE (IF is_allowed_origin(req.origin) THEN req.origin ELSE None)

\* Positions of the start messages on the send channel of slot s.
ConcStarts(s) ==
  { i \in 1..Len(calls[s].wire) : calls[s].wire[i].msg.type = "http.response.start" }

\* The headers the response had before the middleware stamped it: those of
\* the application's message, or those of a fresh JSONResponse.
GivenHeaders(s, i) ==
  IF calls[s].wire[i].via = "except"
  THEN init_headers(<<>>, render(model_dump(ERROR_MESSAGE)), "application/json")
  ELSE HeadersOf(calls[s].emitted[i])

\* Each response is stamped from the policy and its own request alone, equal
\* inputs give equal messages, and no response carries the other call's origin.
RequestsIndependent ==
  /\ \A s \in Slots : \A i \in ConcStarts(s) :
       LET req == calls[s].request
           m == calls[s].wire[i].msg
           own == { e[2] : e \in { GivenHeaders(s, i)[k] : k \in FoundIndexes(GivenHeaders(s, i), ACAO) } }
       IN /\ req.origin = None => m = calls[s].emitted[i]
          /\ req.origin # None =>
               AcaoValues(m) = IF ExpectedAllowOrigin(req) # None
                               THEN {ExpectedAllowOrigin(req)} ELSE own
          /\ \A t \in Slots \ {s} :
               calls[t].request.origin \notin {None, req.origin}
               => calls[t].request.origin \notin AcaoValues(m)
  /\ \A s, t \in Slots : \A i \in ConcStarts(s), j \in ConcStarts(t) :
       ( /\ calls[s].request.origin = calls[t].request.origin
         /\ calls[s].request.cookie = calls[t].request.cookie
         /\ calls[s].wire[i].via = calls[t].wire[j].via
         /\ GivenHeaders(s, i) = GivenHeaders(t, j) )
       => CorsPart(calls[s].wire[i].msg.headers) = CorsPart(calls[t].wire[j].msg.headers)

\* C18: no step of any call changes the configured policy, and however the
\* calls are interleaved or follow one another, the CORS headers of each
\* response are those the policy gives for that call's own Origin and Cookie:
\* calls with equal inputs get equal CORS headers, and the origin of one call
\* is never put on the response of another.
C18_RequestsIndependent ==
  /\ []RequestsIndependent
  /\ [][policy' = policy]_vars

\* Two calls with different origins are in flight at once, and each has had
\* its start message forwarded with its own origin on it.
C18_Witness ==
  /\ calls[1].pc = "app" /\ calls[2].pc = "app"
  /\ calls[1].request.origin = ORIGIN_A /\ calls[2].request.origin = ORIGIN_UPPER
  /\ ConcStarts(1) = {1} /\ ConcStarts(2) = {1}
  /\ AcaoValues(calls[1].wire[1].msg) = {ORIGIN_A}
  /\ AcaoValues(calls[2].wire[1].msg) = {ORIGIN_UPPER}

\* C19: when the task is cancelled while the application runs (the
\* application's await raises CancelledError), the except block is not
\* entered: nothing is logged, no synthesized response is sent, nothing is
\* put on the wire after the application's own messages, and the
\* cancellation leaves the middleware call.
C19_CancellationPropagates ==
  (app_exc = "CancelledError")
  => /\ pc = "done"
     /\ outcome = "raised"
     /\ ~logged
     /\ Len(wire) = Len(emitted)
     /\ \A i \in 1..Len(wire) : wire[i].via # "except"

C19_Witness ==
  /\ app_exc = "CancelledError" /\ path = "Intercepted" /\ pc = "done"
  /\ Len(emitted) = 1 /\ emitted[1].type = "http.response.start"
  /\ Len(wire) = 1 /\ wire[1].accepted

\* The transport took every message it was handed.
AllAccepted == \A i \in 1..Len(wire) : wire[i].accepted

\* The application emitted one start message followed by body chunks, the
\* last of them, and only the last, with no more body to follow.
WellFormed(e) ==
  /\ Len(e) >= 2
  /\ e[1].type = "http.response.start"
  /\ \A k \in 2..Len(e) :
       e[k].type = "http.response.body" /\ (e[k].more_body <=> k < Len(e))

\* The wire ends with the last chunk of a response: a start message, then
\* only body chunks, the final one with no more body to follow.
EndsWithCompleteResponse ==
  LET n == Len(wire)
  IN /\ n >= 2
     /\ wire[n].msg.type = "http.response.body" /\ ~wire[n].msg.more_body
     /\ \E j \in 1..(n - 1) :
          /\ wire[j].msg.type = "http.response.start"
          /\ \A k \in (j + 1)..(n - 1) :
               wire[k].msg.type = "http.response.body" /\ wire[k].msg.more_body

\* C20: HTTP request with Origin whose application is invoked; if the
\* application ends, by returning after one start message and a final chunk
\* or by raising an Exception at any point, and the transport takes every
\* message, the middleware call ends and the last message delivered is the
\* final chunk of a complete response.
C20_EndsWithFinalChunk ==
  /\ []( ( /\ pc = "done" /\ HttpWithOrigin /\ app_calls = 1 /\ AllAccepted
           /\ \/ app_exc = "Exception"
              \/ app_exc = None /\ WellFormed(emitted) )
         => (outcome = "returned" /\ EndsWithCompleteResponse) )
  /\ ((pc = "except") ~> (pc = "done"))

C20_Witness ==
  /\ pc = "done" /\ HttpWithOrigin /\ app_calls = 1 /\ AllAccepted
  /\ app_exc = "Exception" /\ Len(emitted) = 1 /\ emitted[1].type = "http.response.start"
  /\ Len(wire) = 3 /\ outcome = "returned"
====
